---------------------------- MODULE Spec2Model ----------------------------
(***************************************************************************)
(* Model of the crossword constraint-satisfaction solver                   *)
(* (HW3/crossword/generate.py, class CrosswordCreator).                    *)
(*                                                                         *)
(* A word is a sequence of letters.  A Variable is a record                *)
(* [i, j, direction, length].  The structure (variables, overlaps) and the *)
(* vocabulary (words) are inputs chosen in the initial state and never     *)
(* changed.  Python indices are 0-based; TLA+ sequences are 1-based, so    *)
(* word[k] of the source is w[k + 1] here.                                 *)
(***************************************************************************)
EXTENDS Integers, Sequences, FiniteSets, TLC

VARIABLES
    variables,    \* crossword.variables: the set of Variable records
    overlaps,     \* crossword.overlaps: <<x, y>> -> <<i, j>>, or None
    words,        \* crossword.words: the vocabulary
    domains,      \* self.domains: Variable -> set of words
    pc,           \* position of the running call chain
    pending,      \* ac3's worklist: the arcs it started with, not yet dequeued
    cur,          \* ac3's worklist: {x} of the last arc dequeued from pending
    arcs,         \* ac3's worklist: the arcs appended since, in order
    caller,       \* who called the running ac3: "solve" or "backtrack"
    inferences,   \* value returned by the last finished ac3 call
    stack,        \* backtrack's call stack, innermost frame last
    assignment,   \* argument of the backtrack call being entered
    retval,       \* value returned by the last finished backtrack call
    result,       \* value returned by solve()
    globalAc3,    \* history: what the ac3() call made by solve() returned
    last,         \* history: the last method called directly, with its outcome
    entered,      \* history: the assignments backtrack has been called with,
                  \* kept by the runs that start with entered.on
    game,         \* Minesweeper: the set of cells that hold a mine
    ai            \* MinesweeperAI: moves_made, mines, safes, knowledge

vars == <<variables, overlaps, words, domains, pc, pending, cur, arcs, caller,
          inferences, stack, assignment, retval, result, globalAc3, last,
          entered, game, ai>>

(***************************************************************************)
(* Bounds of the model.                                                    *)
(***************************************************************************)
GridH == 2
GridW == 3
MaxVars == 4
MaxWords == 3
MaxWordLen == 3
MaxAssigned == 3
MsHeight == 3
MsWidth == 3
MaxMines == 3
MaxCalls == 3

Letters == {"A", "B"}

(***************************************************************************)
(* Optional values.  An overlap is <<i, j>> or None (the empty tuple).  A  *)
(* value returned by backtrack or solve is a set: {} is Python's None and  *)
(* {a} is the assignment a.                                                *)
(***************************************************************************)
None == <<>>
NoneVal == {}
Some(a) == {a}

ACROSS == "across"
DOWN == "down"

(***************************************************************************)
(* The structure model (crossword.py, an external collaborator): the       *)
(* variables are the maximal horizontal and vertical runs of at least two  *)
(* fillable cells, and two variables overlap where they share a cell.      *)
(***************************************************************************)
Cells == (0 .. GridH - 1) \X (0 .. GridW - 1)

AcrossLen(S, i, j) ==
    CHOOSE n \in 1 .. GridW :
        /\ \A k \in 0 .. n - 1 : <<i, j + k>> \in S
        /\ <<i, j + n>> \notin S

DownLen(S, i, j) ==
    CHOOSE n \in 1 .. GridH :
        /\ \A k \in 0 .. n - 1 : <<i + k, j>> \in S
        /\ <<i + n, j>> \notin S

Variable(i, j, direction, length) ==
    [i |-> i, j |-> j, direction |-> direction, length |-> length]

VariablesOf(S) ==
    { Variable(c[1], c[2], ACROSS, AcrossLen(S, c[1], c[2])) :
        c \in { d \in S : /\ <<d[1], d[2] - 1>> \notin S
                          /\ AcrossLen(S, d[1], d[2]) > 1 } }
    \cup
    { Variable(c[1], c[2], DOWN, DownLen(S, c[1], c[2])) :
        c \in { d \in S : /\ <<d[1] - 1, d[2]>> \notin S
                          /\ DownLen(S, d[1], d[2]) > 1 } }

\* Variable.cells: the k-th cell (0-based) of the slot
CellAt(v, k) ==
    <<v.i + (IF v.direction = DOWN THEN k ELSE 0),
      v.j + (IF v.direction = ACROSS THEN k ELSE 0)>>

CellsOf(v) == { CellAt(v, k) : k \in 0 .. v.length - 1 }

IndexOf(v, c) == CHOOSE k \in 0 .. v.length - 1 : CellAt(v, k) = c

Overlap(v1, v2) ==
    LET inter == CellsOf(v1) \cap CellsOf(v2)
    IN  IF inter = {}
        THEN None
        ELSE LET c == CHOOSE d \in inter : TRUE
             IN  <<IndexOf(v1, c), IndexOf(v2, c)>>

Pairs(V) == { p \in V \X V : p[1] # p[2] }

OverlapsOf(V) == [p \in Pairs(V) |-> Overlap(p[1], p[2])]

Structures ==
    { V \in { VariablesOf(S) : S \in SUBSET Cells } : Cardinality(V) <= MaxVars }

\* Crossword.neighbors(var)
neighbors(var) ==
    { v \in variables : v # var /\ overlaps[<<v, var>>] # None }

(***************************************************************************)
(* Vocabularies: at most MaxWords words of 2 .. MaxWordLen letters.        *)
(***************************************************************************)
WordsOfLen(n) == [1 .. n -> Letters]

WordPool == UNION { WordsOfLen(n) : n \in 2 .. MaxWordLen }

Vocabularies == { W \in SUBSET WordPool : Cardinality(W) <= MaxWords }


(***************************************************************************)
(* Python containers.  Iterating a set visits its elements in an order the *)
(* program does not control: Orderings(S) is every list a comprehension    *)
(* over S can build.  A dict is a list of <<key, value>> pairs in          *)
(* insertion order.                                                        *)
(***************************************************************************)
Orderings(S) ==
    { s \in [1 .. Cardinality(S) -> S] : \A e \in S : \E k \in DOMAIN s : s[k] = e }

Keys(a) == { a[k][1] : k \in DOMAIN a }

Value(a, v) == a[CHOOSE k \in DOMAIN a : a[k][1] = v][2]

\* the dict a up to insertion order, which == of two dicts ignores
AsDict(a) == { a[k] : k \in DOMAIN a }

\* word[i] of the source (0-based); defined only if InRange(word, i)
InRange(word, i) == i < Len(word)

Char(word, i) == word[i + 1]

RECURSIVE SumOver(_, _)
SumOver(S, f) ==
    IF S = {} THEN 0
    ELSE LET e == CHOOSE x \in S : TRUE
         IN  f[e] + SumOver(S \ {e}, f)

(***************************************************************************)
(* CrosswordCreator.__init__                                               *)
(***************************************************************************)
InitialDomains(V, W) == [var \in V |-> W]

(***************************************************************************)
(* enforce_node_consistency: the domains after the call.                   *)
(***************************************************************************)
enforce_nothing(d) == d

enforce_at_least(d) ==
    [var \in DOMAIN d |-> { w \in d[var] : Len(w) >= var.length }]

enforce_one_fewer(d) ==
    [var \in DOMAIN d |->
        LET keep == { w \in d[var] : Len(w) = var.length }
        IN  IF keep = d[var] /\ keep # {}
            THEN keep \ {CHOOSE w \in keep : TRUE}
            ELSE keep]

enforce_node_consistency(d) ==
    [var \in DOMAIN d |-> { w \in d[var] : Len(w) = var.length }]

(***************************************************************************)
(* revise(x, y), run on the domains d with the overlap entry ov.  The      *)
(* result is the set of ways the call can end: raised (unpacking None, or  *)
(* an index outside a word), or returned with `revised` and the new        *)
(* domains.  For one word_x the inner loop visits domains[y] in any order  *)
(* and stops at the first match, so a word_y that is too short raises only *)
(* if it is visited before a match.                                        *)
(***************************************************************************)
has_match(d, y, ov, word_x) ==
    IF d[y] = {} THEN {"nomatch"}
    ELSE IF ~InRange(word_x, ov[1]) THEN {"raise"}
    ELSE (IF \E word_y \in d[y] : ~InRange(word_y, ov[2])
             THEN {"raise"} ELSE {})
         \cup
         (IF \E word_y \in d[y] : /\ InRange(word_y, ov[2])
                                  /\ Char(word_x, ov[1]) = Char(word_y, ov[2])
             THEN {"match"} ELSE {})
         \cup
         (IF \A word_y \in d[y] : /\ InRange(word_y, ov[2])
                                  /\ Char(word_x, ov[1]) # Char(word_y, ov[2])
             THEN {"nomatch"} ELSE {})

Raised(d) == [raised |-> TRUE, revised |-> FALSE, domains |-> d]

ReviseWith(d, x, y, ov) ==
    IF ov = None
    THEN {Raised(d)}
    ELSE LET to_remove == { word_x \in d[x] : "match" \notin has_match(d, y, ov, word_x) }
         IN  (IF \E word_x \in d[x] : "raise" \in has_match(d, y, ov, word_x)
                 THEN {Raised(d)} ELSE {})
             \cup
             (IF \A word_x \in d[x] : has_match(d, y, ov, word_x) # {"raise"}
                 THEN {[raised |-> FALSE,
                        revised |-> to_remove # {},
                        domains |-> [d EXCEPT ![x] = d[x] \ to_remove]]}
                 ELSE {})

revise_all_must_match(d, x, y) ==
    LET ov == overlaps[<<x, y>>]
        to_remove == { word_x \in d[x] :
                         \E word_y \in d[y] :
                             Char(word_x, ov[1]) # Char(word_y, ov[2]) }
    IN  {[raised |-> FALSE,
          revised |-> to_remove # {},
          domains |-> [d EXCEPT ![x] = d[x] \ to_remove]]}

revise_from_vocabulary(d, x, y) ==
    ReviseWith([d EXCEPT ![x] = { w \in words : Len(w) = x.length }],
               x, y, overlaps[<<x, y>>])

revise_swapped(d, x, y) == ReviseWith(d, x, y, overlaps[<<y, x>>])

revise(d, x, y) == ReviseWith(d, x, y, overlaps[<<x, y>>])

(***************************************************************************)
(* ac3's worklist.  The list ac3 starts with is built by iterating sets,   *)
(* in an order the program does not control, and is consumed from the      *)
(* front before any appended arc.  The model keeps that part of the list   *)
(* as the set `pending` and fixes which arc comes next when it is          *)
(* dequeued: any order the comprehension can produce, and no other.  The   *)
(* arcs appended by the loop follow in `arcs`, in the order appended.      *)
(***************************************************************************)
arcs_from_across ==
    { p \in Pairs(variables) : p[2] \in neighbors(p[1]) /\ p[1].direction = ACROSS }

\* ac3, lines 153-157: [(x, y) for x in variables for y in neighbors(x)]
all_arcs == { p \in Pairs(variables) : p[2] \in neighbors(p[1]) }

\* backtrack, line 272: [(neighbor, var) for neighbor in neighbors(var)]
arcs_into(var) == { <<neighbor, var>> : neighbor \in neighbors(var) }

\* the arcs that can be at the front of the list: the comprehensions keep
\* the arcs of one x together
Front ==
    IF pending # {}
    THEN { a \in pending : a[1] \in cur \/ \A b \in pending : b[1] \notin cur }
    ELSE IF arcs # <<>> THEN {Head(arcs)} ELSE {}

\* the lists a comprehension over the set S can append
ArcsInto(S, x) ==
    { [k \in DOMAIN s |-> <<s[k], x>>] : s \in Orderings(S) }

\* ac3, line 168: len(self.domains[x]) == 0
emptied_at_most_one(d, x) == Cardinality(d[x]) <= 1

emptied_never(d, x) == FALSE

emptied(d, x) == Cardinality(d[x]) = 0

\* ac3, lines 171-172: the arcs (z, x) appended after a revision of x
requeue_none(x, y) == {<<>>}

requeue_all_others(x, y) == ArcsInto(variables \ {x, y}, x)

requeue(x, y) == ArcsInto(neighbors(x) \ {y}, x)

(***************************************************************************)
(* assignment_complete, consistent                                         *)
(***************************************************************************)
assignment_complete(a) == Keys(a) = variables

DistinctUnchecked(a) == TRUE

Distinct(a) == \A k, l \in DOMAIN a : a[k][2] = a[l][2] => k = l

\* the checks of one neighbour of var inside consistent's loop
NeighborRaises(a, var, word, n) ==
    LET ov == overlaps[<<var, n>>]
    IN  \/ ov = None
        \/ ~InRange(word, ov[1])
        \/ ~InRange(Value(a, n), ov[2])

NeighborNeverConflicts(a, var, word, n) == FALSE

NeighborConflicts(a, var, word, n) ==
    LET ov == overlaps[<<var, n>>]
    IN  /\ ~NeighborRaises(a, var, word, n)
        /\ Char(word, ov[1]) # Char(Value(a, n), ov[2])

RECURSIVE consistent_from(_, _)
consistent_from(a, k) ==
    IF k > Len(a) THEN {"True"}
    ELSE LET var == a[k][1]
             word == a[k][2]
             N == neighbors(var) \cap Keys(a)
         IN  IF Len(word) # var.length THEN {"False"}
             ELSE (IF \E n \in N : NeighborRaises(a, var, word, n)
                      THEN {"raise"} ELSE {})
                  \cup
                  (IF \E n \in N : NeighborConflicts(a, var, word, n)
                      THEN {"False"} ELSE {})
                  \cup
                  (IF \A n \in N : /\ ~NeighborRaises(a, var, word, n)
                                   /\ ~NeighborConflicts(a, var, word, n)
                      THEN consistent_from(a, k + 1) ELSE {})

\* the ways consistent(assignment) can end: "True", "False" or "raise"
consistent(a) ==
    IF ~Distinct(a) THEN {"False"} ELSE consistent_from(a, 1)

(***************************************************************************)
(* order_domain_values, select_unassigned_variable                         *)
(***************************************************************************)
unassigned_neighbors(var, a) == neighbors(var) \ Keys(a)

count_conflicts(var, a, word) ==
    SumOver(unassigned_neighbors(var, a),
            [n \in unassigned_neighbors(var, a) |->
                Cardinality({ neighbor_word \in domains[n] :
                    Char(word, overlaps[<<var, n>>][1])
                        # Char(neighbor_word, overlaps[<<var, n>>][2]) })])

\* a key computation of the sort raises (every key is computed)
order_raises(var, a) ==
    \E word \in domains[var] : \E n \in unassigned_neighbors(var, a) :
        \/ overlaps[<<var, n>>] = None
        \/ \E neighbor_word \in domains[n] :
              \/ ~InRange(word, overlaps[<<var, n>>][1])
              \/ ~InRange(neighbor_word, overlaps[<<var, n>>][2])

order_unsorted(var, a) == Orderings(domains[var])

order_twice(var, a) == { s \o s : s \in Orderings(domains[var]) }

\* sorted() is stable and list(set) has any order: every list of the domain
\* in non-decreasing order of count_conflicts
order_domain_values(var, a) ==
    { s \in Orderings(domains[var]) :
        \A k \in 1 .. Len(s) - 1 :
            count_conflicts(var, a, s[k]) <= count_conflicts(var, a, s[k + 1]) }

select_any_unassigned(a) == variables \ Keys(a)

\* the variables sorted(...)[0] can be: any unassigned one of least domain size
select_unassigned_variable(a) ==
    { var \in variables \ Keys(a) :
        \A u \in variables \ Keys(a) :
            Cardinality(domains[var]) <= Cardinality(domains[u]) }

\* Python's truth value of backtrack's result: not None and not an empty dict
Truthy(r) == r # NoneVal /\ \A a \in r : Len(a) > 0

(***************************************************************************)
(* solve(): the state after construction, and one action per step of the   *)
(* call chain solve -> enforce_node_consistency, ac3, backtrack.           *)
(*   pc = "solve"      solve() has been called                             *)
(*        "ac3_call"   ac3() is called without arcs                        *)
(*        "ac3"        at the head of ac3's while loop                     *)
(*        "ac3_ret"    ac3 has returned `inferences` to `caller`           *)
(*        "backtrack"  backtrack(assignment) is called                     *)
(*        "bt_loop"    at the head of backtrack's for loop                 *)
(*        "bt_ret"     a backtrack call has returned `retval`              *)
(*        "done"       solve() has returned `result`                       *)
(*        "raised"     an exception left solve()                           *)
(*        "calls"      no call is running; methods are called directly     *)
(*        "returned"   a method called directly, once, has returned        *)
(***************************************************************************)
NoCall == [op |-> "none"]

\* the history of backtrack's calls: not kept, or kept and empty
NotRecorded == [on |-> FALSE, calls |-> {}]

Recorded == [on |-> TRUE, calls |-> {}]

\* MinesweeperAI.__init__: nothing is known and no move has been made
NoAI == [moves_made |-> {}, mines |-> {}, safes |-> {}, knowledge |-> <<>>]

IdleBut(V, O, W, h) ==
    /\ variables = V
    /\ overlaps = O
    /\ words = W
    /\ pending = {}
    /\ cur = {}
    /\ arcs = <<>>
    /\ caller = "solve"
    /\ inferences = TRUE
    /\ stack = <<>>
    /\ assignment = <<>>
    /\ retval = NoneVal
    /\ result = NoneVal
    /\ globalAc3 = TRUE
    /\ last = NoCall
    /\ entered = h
    /\ game = {}
    /\ ai = NoAI

Idle(V, O, W) == IdleBut(V, O, W, NotRecorded)

Init ==
    \E V \in Structures : \E W \in Vocabularies :
        /\ Idle(V, OverlapsOf(V), W)
        /\ domains = InitialDomains(V, W)
        /\ pc = "solve"

Top == stack[Len(stack)]

Pop == SubSeq(stack, 1, Len(stack) - 1)

new_assignment(f) == Append(f.assignment, <<f.var, f.values[f.k]>>)

\* backtrack, line 267: the for loop moves to the next value
NextValueGivesUp == [stack EXCEPT ![Len(stack)].k = Len(Top.values) + 1]

NextValue == [stack EXCEPT ![Len(stack)].k = @ + 1]

\* solve, line 96
solve_enforce ==
    /\ pc = "solve"
    /\ domains' = enforce_node_consistency(domains)
    /\ caller' = "solve"
    /\ pc' = "ac3_call"
    /\ UNCHANGED <<variables, overlaps, words, pending, cur, arcs, inferences, stack,
                   assignment, retval, result, globalAc3, last,
                   entered, game, ai>>

ac3_init_no_arcs ==
    /\ pc = "ac3_call"
    /\ pending' = {}
    /\ cur' = {}
    /\ arcs' = <<>>
    /\ pc' = "ac3"
    /\ UNCHANGED <<variables, overlaps, words, domains, caller, inferences,
                   stack, assignment, retval, result, globalAc3, last,
                   entered, game, ai>>

\* ac3, lines 152-157: arcs is None
ac3_init ==
    /\ pc = "ac3_call"
    /\ pending' = all_arcs
    /\ cur' = {}
    /\ arcs' = <<>>
    /\ pc' = "ac3"
    /\ UNCHANGED <<variables, overlaps, words, domains, caller, inferences,
                   stack, assignment, retval, result, globalAc3, last,
                   entered, game, ai>>

Peeked(a) == [pending |-> pending, cur |-> cur, arcs |-> arcs]

\* the worklist without the arc a at its front
Dequeued(a) ==
    IF pending # {}
    THEN [pending |-> pending \ {a}, cur |-> {a[1]}, arcs |-> arcs]
    ELSE [pending |-> {}, cur |-> {}, arcs |-> Tail(arcs)]

\* ac3, lines 162-172: one pass of the while loop
ac3_iter ==
    /\ pc = "ac3"
    /\ \E a \in Front :
          LET x == a[1]
              y == a[2]
              rest == Dequeued(a)
          IN  \E o \in revise(domains, x, y) :
                IF o.raised
                THEN /\ pc' = "raised"
                     /\ UNCHANGED <<domains, pending, cur, arcs, inferences>>
                ELSE /\ domains' = o.domains
                     /\ IF o.revised /\ emptied(o.domains, x)
                        THEN /\ inferences' = FALSE
                             /\ pending' = {}
                             /\ cur' = {}
                             /\ arcs' = <<>>
                             /\ pc' = "ac3_ret"
                        ELSE /\ pending' = rest.pending
                             /\ cur' = IF rest.pending = {} THEN {} ELSE rest.cur
                             /\ IF o.revised
                                THEN \E zs \in requeue(x, y) :
                                        arcs' = rest.arcs \o zs
                                ELSE arcs' = rest.arcs
                             /\ UNCHANGED <<pc, inferences>>
    /\ UNCHANGED <<variables, overlaps, words, caller, stack, assignment,
                   retval, result, globalAc3, last,
                   entered, game, ai>>

\* ac3, line 173: the list is empty
ac3_done ==
    /\ pc = "ac3"
    /\ Front = {}
    /\ inferences' = TRUE
    /\ pc' = "ac3_ret"
    /\ UNCHANGED <<variables, overlaps, words, domains, pending, cur, arcs,
                   caller, stack, assignment, retval, result, globalAc3, last,
                   entered, game, ai>>

\* solve, lines 97-98: the value of ac3() is dropped
solve_backtrack ==
    /\ pc = "ac3_ret"
    /\ caller = "solve"
    /\ globalAc3' = inferences
    /\ assignment' = <<>>
    /\ pc' = "backtrack"
    /\ UNCHANGED <<variables, overlaps, words, domains, pending, cur, arcs, caller,
                   inferences, stack, retval, result, last,
                   entered, game, ai>>

\* backtrack, lines 262-267: the base case, or the choice of var and of the
\* list of values the for loop runs over
backtrack_enter ==
    /\ pc = "backtrack"
    /\ IF assignment_complete(assignment)
       THEN /\ retval' = Some(assignment)
            /\ pc' = "bt_ret"
            /\ UNCHANGED stack
       ELSE \E var \in select_unassigned_variable(assignment) :
              IF order_raises(var, assignment)
              THEN /\ pc' = "raised"
                   /\ UNCHANGED <<stack, retval>>
              ELSE \E values \in order_domain_values(var, assignment) :
                     /\ stack' = Append(stack, [assignment |-> assignment,
                                                var |-> var,
                                                values |-> values,
                                                k |-> 1,
                                                snap |-> domains])
                     /\ pc' = "bt_loop"
                     /\ UNCHANGED retval
    /\ assignment' = <<>>
    /\ entered' = IF entered.on
                   THEN [entered EXCEPT !.calls = @ \cup {AsDict(assignment)}]
                   ELSE entered
    /\ UNCHANGED <<variables, overlaps, words, domains, pending, cur, arcs, caller,
                   inferences, result, globalAc3, last, game, ai>>

\* backtrack, lines 267-273: the next value, and the call of ac3 with the
\* arcs (neighbor, var); snap records the domains before that call
backtrack_try ==
    /\ pc = "bt_loop"
    /\ Top.k <= Len(Top.values)
    /\ pending' = arcs_into(Top.var)
    /\ cur' = {}
    /\ arcs' = <<>>
    /\ stack' = [stack EXCEPT ![Len(stack)].snap = domains]
    /\ caller' = "backtrack"
    /\ pc' = "ac3"
    /\ UNCHANGED <<variables, overlaps, words, domains, inferences,
                   assignment, retval, result, globalAc3, last,
                   entered, game, ai>>

\* backtrack, line 280: the for loop is over
backtrack_exhausted ==
    /\ pc = "bt_loop"
    /\ Top.k > Len(Top.values)
    /\ stack' = Pop
    /\ retval' = NoneVal
    /\ pc' = "bt_ret"
    /\ UNCHANGED <<variables, overlaps, words, domains, pending, cur, arcs, caller,
                   inferences, assignment, result, globalAc3, last,
                   entered, game, ai>>

backtrack_infer_unchecked ==
    /\ pc = "ac3_ret"
    /\ caller = "backtrack"
    /\ assignment' = new_assignment(Top)
    /\ pc' = "backtrack"
    /\ UNCHANGED <<variables, overlaps, words, domains, pending, cur, arcs, caller,
                   inferences, stack, retval, result, globalAc3, last,
                   entered, game, ai>>

\* backtrack, lines 274-275: consistent(new_assignment) and inferences
backtrack_infer ==
    /\ pc = "ac3_ret"
    /\ caller = "backtrack"
    /\ \E c \in consistent(new_assignment(Top)) :
          IF c = "raise"
          THEN /\ pc' = "raised"
               /\ UNCHANGED <<stack, assignment>>
          ELSE IF c = "True" /\ inferences
          THEN /\ assignment' = new_assignment(Top)
               /\ pc' = "backtrack"
               /\ UNCHANGED stack
          ELSE /\ stack' = NextValue
               /\ pc' = "bt_loop"
               /\ UNCHANGED assignment
    /\ UNCHANGED <<variables, overlaps, words, domains, pending, cur, arcs, caller,
                   inferences, retval, result, globalAc3, last,
                   entered, game, ai>>

\* backtrack, lines 275-278: the recursive call has returned
backtrack_return ==
    /\ pc = "bt_ret"
    /\ stack # <<>>
    /\ IF Truthy(retval)
       THEN /\ stack' = Pop
            /\ UNCHANGED <<pc, retval>>
       ELSE /\ stack' = NextValue
            /\ retval' = NoneVal
            /\ pc' = "bt_loop"
    /\ UNCHANGED <<variables, overlaps, words, domains, pending, cur, arcs, caller,
                   inferences, assignment, result, globalAc3, last,
                   entered, game, ai>>

\* solve, line 98: the outermost backtrack call has returned
solve_return ==
    /\ pc = "bt_ret"
    /\ stack = <<>>
    /\ result' = retval
    /\ pc' = "done"
    /\ UNCHANGED <<variables, overlaps, words, domains, pending, cur, arcs, caller,
                   inferences, stack, assignment, retval, globalAc3, last,
                   entered, game, ai>>

Next ==
    \/ solve_enforce
    \/ ac3_init
    \/ ac3_iter
    \/ ac3_done
    \/ solve_backtrack
    \/ backtrack_enter
    \/ backtrack_try
    \/ backtrack_exhausted
    \/ backtrack_infer
    \/ backtrack_return
    \/ solve_return

Spec == Init /\ [][Next]_vars

(***************************************************************************)
(* What the claims speak of, stated without the solver's own operators.    *)
(***************************************************************************)
HasOverlap(x, y) == x # y /\ overlaps[<<x, y>>] # None

\* the words wx of x and wy of y have the same letter at the overlap of x, y
Agree(x, wx, y, wy) ==
    LET ov == overlaps[<<x, y>>]
    IN  /\ InRange(wx, ov[1])
        /\ InRange(wy, ov[2])
        /\ Char(wx, ov[1]) = Char(wy, ov[2])

\* f, a function from assigned variables to words, breaks no constraint
Satisfies(f) ==
    /\ \A x, y \in DOMAIN f : x # y => f[x] # f[y]
    /\ \A x \in DOMAIN f : Len(f[x]) = x.length
    /\ \A x, y \in DOMAIN f : HasOverlap(x, y) => Agree(x, f[x], y, f[y])

Solutions == { f \in [variables -> words] : Satisfies(f) }

\* the dict a as a function, if no key occurs twice
IsDict(a) == \A k, l \in DOMAIN a : a[k][1] = a[l][1] => k = l

AsFunction(a) == [v \in Keys(a) |-> Value(a, v)]

NodeConsistent(d) == \A v \in DOMAIN d : \A w \in d[v] : Len(w) = v.length

ArcConsistent(d) ==
    \A x, y \in variables :
        HasOverlap(x, y) =>
            \A w \in d[x] : \E w2 \in d[y] : Agree(x, w, y, w2)

Returned == pc = "done"

ReturnedNone == pc = "done" /\ result = NoneVal

(***************************************************************************)
(* C1 (soundness): an assignment returned by solve() assigns a word to     *)
(* every variable, the words are pairwise distinct, each has the length of *)
(* its variable, and neighbouring variables agree at their overlap.        *)
(***************************************************************************)
C1_Soundness ==
    Returned =>
        \A a \in result :
            /\ IsDict(a)
            /\ Keys(a) = variables
            /\ Satisfies(AsFunction(a))

C1_Witness ==
    /\ Returned
    /\ result # NoneVal
    /\ \E x, y \in variables : HasOverlap(x, y)
    /\ \E v \in variables : Cardinality(domains[v]) > 1

(***************************************************************************)
(* C2 (completeness): if some complete consistent assignment exists, then  *)
(* solve() raises nothing and what it returns is a complete assignment,    *)
(* not None.                                                               *)
(***************************************************************************)
C2_Completeness ==
    \/ pc \notin {"raised", "done"}
    \/ Solutions = {}
    \/ /\ Returned
       /\ result # NoneVal
       /\ \A a \in result : Keys(a) = variables

\* backtrack hands solve() a solution found after the first value tried for
\* the first variable had failed
C2_Witness ==
    /\ pc = "bt_ret"
    /\ Solutions # {}
    /\ Truthy(retval)
    /\ Len(stack) = 1
    /\ Top.k > 1

(***************************************************************************)
(* C3 (branch confinement): when a value of the for loop of backtrack has  *)
(* been tried without success, the domains are what they were just before  *)
(* the ac3 pass run for that value.                                        *)
(***************************************************************************)
ValueFailed == pc = "bt_loop" /\ Top.k > 1

C3_BranchConfined == ValueFailed => domains = Top.snap

C3_Witness ==
    /\ ValueFailed
    /\ neighbors(Top.var) # {}
    /\ Len(stack) >= 2

(***************************************************************************)
(* C4: if the ac3() call made by solve() returned False, solve() returns   *)
(* None.                                                                   *)
(***************************************************************************)
C4_Ac3FalseGivesNone ==
    ~globalAc3 => /\ pc # "raised"
                  /\ Returned => result = NoneVal

C4_Witness == Returned /\ ~globalAc3

(***************************************************************************)
(* C5: when ac3() called without arcs returns True, every word of every    *)
(* domain has, for each overlapping variable, an agreeing word in that     *)
(* variable's domain.                                                      *)
(***************************************************************************)
GlobalAc3Returned == pc = "ac3_ret" /\ caller = "solve"

C5_ArcConsistency ==
    GlobalAc3Returned /\ inferences => ArcConsistent(domains)

\* ... after words were removed from the domains of two variables
C5_Witness ==
    /\ GlobalAc3Returned
    /\ inferences
    /\ \E x, y \in variables :
          /\ x # y
          /\ domains[x] # {}
          /\ domains[x] # { w \in words : Len(w) = x.length }
          /\ domains[y] # { w \in words : Len(w) = y.length }

(***************************************************************************)
(* C6: when ac3 returns True no variable has an empty domain.              *)
(***************************************************************************)
C6_TrueMeansNoEmptyDomain ==
    pc = "ac3_ret" /\ inferences => \A v \in variables : domains[v] # {}

(***************************************************************************)
(* C7: if no word of the vocabulary has the length of some variable,       *)
(* solve() returns None and raises nothing.                                *)
(***************************************************************************)
Unfillable == \E v \in variables : \A w \in words : Len(w) # v.length

C7_GracefulFailure ==
    Unfillable => /\ pc # "raised"
                  /\ Returned => result = NoneVal

\* ... with a vocabulary that does fill another variable
C7_Witness ==
    /\ ReturnedNone
    /\ Unfillable
    /\ \E v \in variables : \E w \in words : Len(w) = v.length

(***************************************************************************)
(* C8: a structure whose overlap index lies outside the words of a         *)
(* variable.  SpecMalformed runs solve() on the structures of Spec and on  *)
(* those structures with the overlap of one crossing moved past the end of *)
(* the first variable's words.                                             *)
(***************************************************************************)
Crossings(V) == { p \in Pairs(V) : Overlap(p[1], p[2]) # None }

\* the overlaps of V with the index into p[1] at the crossing p out of bounds
MalformedAt(V, p) ==
    [q \in Pairs(V) |->
        IF q = p THEN <<p[1].length, Overlap(p[1], p[2])[2]>>
        ELSE IF q = <<p[2], p[1]>> THEN <<Overlap(p[2], p[1])[1], p[1].length>>
        ELSE Overlap(q[1], q[2])]

AnyOverlaps(V) == {OverlapsOf(V)} \cup { MalformedAt(V, p) : p \in Crossings(V) }

InitMalformed ==
    \E V \in Structures : \E O \in AnyOverlaps(V) : \E W \in Vocabularies :
        /\ Cardinality(V) < MaxVars
        /\ Idle(V, O, W)
        /\ domains = InitialDomains(V, W)
        /\ pc = "solve"

SpecMalformed == InitMalformed /\ [][Next]_vars

OutOfBounds ==
    \E p \in Pairs(variables) :
        /\ overlaps[p] # None
        /\ overlaps[p][1] >= p[1].length

\* C8: with an overlap index out of bounds solve() raises nothing and
\* returns None
C8_MalformedGivesNone ==
    OutOfBounds => /\ pc # "raised"
                   /\ Returned => result = NoneVal

(***************************************************************************)
(* Direct calls of the solver's methods on a constructed solver.           *)
(* SpecCalls: enforce_node_consistency() at any time, and revise(x, y) for *)
(* any two variables once the domains are node consistent (the lifecycle   *)
(* of the domains: built, pruned by node consistency, then revised).       *)
(* `last` records the call: its arguments, the domains before it and how   *)
(* it ended.                                                               *)
(***************************************************************************)
InitCalls ==
    \E V \in Structures : \E W \in Vocabularies :
        /\ Idle(V, OverlapsOf(V), W)
        /\ domains = InitialDomains(V, W)
        /\ pc = "calls"

call_enforce_node_consistency ==
    /\ pc = "calls"
    /\ domains' = enforce_node_consistency(domains)
    /\ last' = [op |-> "enforce_node_consistency", before |-> domains]
    /\ UNCHANGED <<variables, overlaps, words, pc, pending, cur, arcs, caller, inferences,
                   stack, assignment, retval, result, globalAc3,
                   entered, game, ai>>

call_revise ==
    /\ pc = "calls"
    /\ NodeConsistent(domains)
    /\ \E x, y \in variables :
          /\ x # y
          /\ \E o \in revise(domains, x, y) :
                /\ domains' = o.domains
                /\ last' = [op |-> "revise", x |-> x, y |-> y,
                            before |-> domains, raised |-> o.raised,
                            revised |-> o.revised]
    /\ UNCHANGED <<variables, overlaps, words, pc, pending, cur, arcs, caller, inferences,
                   stack, assignment, retval, result, globalAc3,
                   entered, game, ai>>

NextCalls ==
    \/ call_enforce_node_consistency
    \/ call_revise

SpecCalls == InitCalls /\ [][NextCalls]_vars

Revised == last.op = "revise"

(***************************************************************************)
(* C9: revise(x, y) for two variables that do not intersect changes no     *)
(* domain and returns False.                                               *)
(***************************************************************************)
C9_ReviseNoOverlapIsNoOp ==
    Revised /\ overlaps[<<last.x, last.y>>] = None =>
        /\ ~last.raised
        /\ ~last.revised
        /\ domains = last.before

(***************************************************************************)
(* C10: for intersecting x and y, revise(x, y) leaves in domains[x]        *)
(* exactly the words of the old domains[x] that agree at the overlap with  *)
(* some word of domains[y], returns True iff a word was removed, and       *)
(* changes no other domain.                                                *)
(***************************************************************************)
C10_ReviseResult ==
    Revised /\ overlaps[<<last.x, last.y>>] # None =>
        /\ ~last.raised
        /\ domains[last.x] =
              { w \in last.before[last.x] :
                  \E w2 \in last.before[last.y] : Agree(last.x, w, last.y, w2) }
        /\ last.revised <=> domains[last.x] # last.before[last.x]
        /\ \A v \in variables \ {last.x} : domains[v] = last.before[v]

\* a call that removed some words of x and kept others, beside a third variable
C10_Witness ==
    /\ Revised
    /\ overlaps[<<last.x, last.y>>] # None
    /\ last.revised
    /\ domains[last.x] # {}
    /\ variables \ {last.x, last.y} # {}

(***************************************************************************)
(* Direct calls of consistent(assignment).  SpecConsistent calls it on     *)
(* every dict that maps at most MaxAssigned of the variables to words of   *)
(* the vocabulary, in every insertion order, once per run; `last` records  *)
(* the dict and how the call ended.                                        *)
(***************************************************************************)
\* the dicts with the keys K, in every insertion order
AssignmentsOver(K) ==
    { [k \in 1 .. Cardinality(K) |-> <<s[k], f[s[k]]>>] :
        s \in Orderings(K), f \in [K -> words] }

PartialAssignments ==
    UNION { AssignmentsOver(K) :
              K \in { L \in SUBSET variables : Cardinality(L) <= MaxAssigned } }

call_consistent ==
    /\ pc = "calls"
    /\ \E a \in PartialAssignments : \E c \in consistent(a) :
          last' = [op |-> "consistent", assignment |-> a, outcome |-> c,
                   before |-> domains]
    /\ pc' = "returned"
    /\ UNCHANGED <<variables, overlaps, words, domains, pending, cur, arcs,
                   caller, inferences, stack, assignment, retval, result,
                   globalAc3,
                   entered, game, ai>>

NextConsistent == call_consistent

SpecConsistent == InitCalls /\ [][NextConsistent]_vars

CalledConsistent == last.op = "consistent"

(***************************************************************************)
(* C11: consistent(assignment) returns True if the assigned words are      *)
(* pairwise distinct, each has the length of its variable and assigned     *)
(* neighbours agree at their overlap; otherwise it returns False; it       *)
(* raises nothing and leaves the domains as they were.                     *)
(***************************************************************************)
C11_ConsistentResult ==
    CalledConsistent =>
        /\ last.outcome = (IF Satisfies(AsFunction(last.assignment))
                              THEN "True" ELSE "False")
        /\ domains = last.before

Enforced == last.op = "enforce_node_consistency"

(***************************************************************************)
(* C12: after enforce_node_consistency() every word of domains[v] has the  *)
(* length of v, and domains[v] holds exactly the words of that length that *)
(* it held before the call.                                                *)
(***************************************************************************)
C12_NodeConsistencyResult ==
    Enforced =>
        \A v \in variables :
            /\ \A w \in domains[v] : Len(w) = v.length
            /\ \A w \in last.before[v] : Len(w) = v.length => w \in domains[v]
            /\ domains[v] \subseteq last.before[v]

\* a call that removed words from one domain and left words in it
C12_Witness ==
    /\ Enforced
    /\ \E v \in variables : domains[v] # {} /\ domains[v] # last.before[v]
    /\ \E w \in words : Len(w) < MaxWordLen
    /\ \E w \in words : Len(w) = MaxWordLen

(***************************************************************************)
(* C13 (idempotence): a call of enforce_node_consistency() that follows    *)
(* another one changes no domain.                                          *)
(***************************************************************************)
C13_Idempotence ==
    [][Enforced /\ call_enforce_node_consistency => domains' = domains]_vars

\* the call was made on domains that an earlier call had pruned
C13_Witness ==
    /\ Enforced
    /\ last.before = domains
    /\ ~NodeConsistent(InitialDomains(variables, words))
    /\ \E v \in variables : domains[v] # {}

(***************************************************************************)
(* Two runs of solve().  SpecTwice runs solve() and then, on a solver      *)
(* built anew from the same structure and the same vocabulary, runs it     *)
(* once more; `last` keeps what the first run returned.  The orders in     *)
(* which the two runs iterate their sets are independent of each other.    *)
(***************************************************************************)
solve_again ==
    /\ pc = "done"
    /\ last = NoCall
    /\ last' = [op |-> "solve", result |-> result]
    /\ domains' = InitialDomains(variables, words)
    /\ pending' = {}
    /\ cur' = {}
    /\ arcs' = <<>>
    /\ caller' = "solve"
    /\ inferences' = TRUE
    /\ stack' = <<>>
    /\ assignment' = <<>>
    /\ retval' = NoneVal
    /\ result' = NoneVal
    /\ globalAc3' = TRUE
    /\ entered' = [entered EXCEPT !.calls = {}]
    /\ pc' = "solve"
    /\ UNCHANGED <<variables, overlaps, words, game, ai>>

NextTwice ==
    \/ Next
    \/ solve_again

SpecTwice == Init /\ [][NextTwice]_vars

SolvedTwice == pc = "done" /\ last.op = "solve"

(***************************************************************************)
(* C14 (determinism): the second run of solve() on the same structure and  *)
(* vocabulary returns what the first run returned.                         *)
(***************************************************************************)
C14_SameResultTwice == SolvedTwice => result = last.result

(***************************************************************************)
(* The heuristics, as backtrack calls them.  When a backtrack call has     *)
(* chosen its variable and its list of values and has tried none of them,  *)
(* its frame holds the assignment it was called with, the variable         *)
(* select_unassigned_variable returned and the list order_domain_values    *)
(* returned, and the domains are those the two calls read.                 *)
(***************************************************************************)
Chosen == pc = "bt_loop" /\ Top.k = 1

Unassigned(a) == variables \ Keys(a)

\* the unassigned variables of least domain size
Tied(a) ==
    { v \in Unassigned(a) :
        \A u \in Unassigned(a) :
            Cardinality(domains[v]) <= Cardinality(domains[u]) }

Degree(v) == Cardinality({ u \in variables : HasOverlap(u, v) })

\* the number of (neighbour, neighbour-word) pairs, over the unassigned
\* neighbours of var, that disagree with word at the overlap
Score(var, a, word) ==
    Cardinality({ p \in Unassigned(a) \X words :
                    /\ HasOverlap(var, p[1])
                    /\ p[2] \in domains[p[1]]
                    /\ ~Agree(var, word, p[1], p[2]) })

(***************************************************************************)
(* C15 (minimum remaining values): the variable select_unassigned_variable *)
(* returns is not in the assignment, and no unassigned variable has a      *)
(* smaller domain.                                                         *)
(***************************************************************************)
C15_MinimumRemainingValues ==
    Chosen =>
        /\ Top.var \in Unassigned(Top.assignment)
        /\ \A u \in Unassigned(Top.assignment) :
              Cardinality(domains[Top.var]) <= Cardinality(domains[u])

\* ... chosen after another variable was assigned, before one of larger domain
C15_Witness ==
    /\ Chosen
    /\ Top.assignment # <<>>
    /\ \E u \in Unassigned(Top.assignment) :
          Cardinality(domains[Top.var]) < Cardinality(domains[u])
    /\ domains[Top.var] # {}

(***************************************************************************)
(* C16 (degree heuristic): among the unassigned variables of least domain  *)
(* size, the one returned has the most neighbours.                         *)
(***************************************************************************)
C16_DegreeTieBreak ==
    Chosen =>
        \A u \in Tied(Top.assignment) : Degree(Top.var) >= Degree(u)

(***************************************************************************)
(* C17 (least constraining value): the list order_domain_values returns    *)
(* holds every word of domains[var] exactly once, in non-decreasing order  *)
(* of Score.                                                               *)
(***************************************************************************)
C17_OrderedByScore ==
    Chosen =>
        /\ Len(Top.values) = Cardinality(domains[Top.var])
        /\ { Top.values[k] : k \in DOMAIN Top.values } = domains[Top.var]
        /\ \A k \in 1 .. Len(Top.values) - 1 :
              Score(Top.var, Top.assignment, Top.values[k])
                  <= Score(Top.var, Top.assignment, Top.values[k + 1])

\* ... for a variable with an assigned and an unassigned neighbour, and
\* values of different scores
C17_Witness ==
    /\ Chosen
    /\ \E n \in Keys(Top.assignment) : HasOverlap(Top.var, n)
    /\ \E n \in Unassigned(Top.assignment) : HasOverlap(Top.var, n)
    /\ \E k, l \in DOMAIN Top.values :
          Score(Top.var, Top.assignment, Top.values[k])
              < Score(Top.var, Top.assignment, Top.values[l])

(***************************************************************************)
(* Scenario B: two variables of length 3, var1 across and var2 down, that  *)
(* cross at index i of var1 and index j of var2, for every i and j in      *)
(* 0 .. 2, with the vocabulary {TEN, ANT}.  SpecScenarioB runs solve() on  *)
(* these nine structures.                                                  *)
(***************************************************************************)
TEN == <<"T", "E", "N">>
ANT == <<"A", "N", "T">>

ScenarioVar1(i, j) == Variable(j, 0, ACROSS, 3)

ScenarioVar2(i, j) == Variable(0, i, DOWN, 3)

InitScenarioB ==
    \E i, j \in 0 .. 2 :
        LET V == {ScenarioVar1(i, j), ScenarioVar2(i, j)}
        IN  /\ Idle(V, OverlapsOf(V), {TEN, ANT})
            /\ domains = InitialDomains(V, {TEN, ANT})
            /\ pc = "solve"

SpecScenarioB == InitScenarioB /\ [][Next]_vars

var1 == CHOOSE v \in variables : v.direction = ACROSS

var2 == CHOOSE v \in variables : v.direction = DOWN

\* the assignment {var1: w1, var2: w2}
Pairing(w1, w2) == [v \in {var1, var2} |-> IF v = var1 THEN w1 ELSE w2]

(***************************************************************************)
(* C18 (Scenario B): solve() raises nothing; it returns {var1: TEN,        *)
(* var2: ANT} if TEN and ANT agree at the overlap of var1 and var2,        *)
(* {var1: ANT, var2: TEN} if ANT and TEN agree there, and None if neither  *)
(* pairing agrees.                                                         *)
(***************************************************************************)
C18_ScenarioB ==
    /\ pc # "raised"
    /\ Returned =>
          IF Agree(var1, TEN, var2, ANT)
          THEN \E a \in result : result = {a} /\ AsFunction(a) = Pairing(TEN, ANT)
          ELSE IF Agree(var1, ANT, var2, TEN)
          THEN \E a \in result : result = {a} /\ AsFunction(a) = Pairing(ANT, TEN)
          ELSE result = NoneVal

\* a pairing was returned
C18_Witness ==
    /\ Returned
    /\ result # NoneVal
    /\ overlaps[<<var1, var2>>] = <<2, 1>>

\* None was returned for the overlap (1, 0)
C18_WitnessNone ==
    /\ ReturnedNone
    /\ overlaps[<<var1, var2>>] = <<1, 0>>

(***************************************************************************)
(* C19 (domains only shrink): every step of solve() leaves each domain a   *)
(* subset of what it was before the step, and a subset of the vocabulary.  *)
(***************************************************************************)
C19_DomainsShrink ==
    [][\A v \in variables : /\ domains'[v] \subseteq domains[v]
                            /\ domains'[v] \subseteq words]_vars

\* solve() has returned an assignment after node consistency and revise
\* both removed words
C19_Witness ==
    /\ Returned
    /\ result # NoneVal
    /\ \E v \in variables : \E w \in words \ domains[v] : Len(w) # v.length
    /\ \E v \in variables : \E w \in words \ domains[v] : Len(w) = v.length

(***************************************************************************)
(* C20: every assignment backtrack is called with, and every assignment it *)
(* returns, gives no word to two variables and breaks no overlap between   *)
(* two assigned neighbours; a recursive call is made only with the         *)
(* extended assignment, after consistent() returned True for it and the    *)
(* ac3 pass run for the value returned True.                               *)
(***************************************************************************)
\* the dict a repeats no word and its assigned neighbours agree
Clean(a) ==
    /\ \A k, l \in DOMAIN a : k # l => a[k][2] # a[l][2]
    /\ \A k, l \in DOMAIN a :
          HasOverlap(a[k][1], a[l][1]) => Agree(a[k][1], a[k][2], a[l][1], a[l][2])

Called == pc = "backtrack"

CalledRecursively == Called /\ stack # <<>>

C20_AssignmentsStayConsistent ==
    /\ Called => Clean(assignment)
    /\ pc = "bt_ret" => \A a \in retval : Clean(a)
    /\ CalledRecursively =>
          /\ assignment = new_assignment(Top)
          /\ consistent(assignment) = {"True"}
          /\ inferences

\* a recursive call with two assigned neighbours, made after another value
\* of the same variable had been rejected
C20_Witness ==
    /\ CalledRecursively
    /\ Top.k > 1
    /\ \E k, l \in DOMAIN assignment : HasOverlap(assignment[k][1], assignment[l][1])

(***************************************************************************)
(* Calls of ac3 on a solver whose domains are node consistent.  SpecAc3    *)
(* enforces node consistency and then calls ac3 once, without arcs or with *)
(* the arcs (neighbor, var) of some variable, the list backtrack passes.   *)
(* The program is one thread that always takes its next step, which is     *)
(* what WF_vars(NextAc3) says.                                             *)
(***************************************************************************)
\* ac3, lines 158-160: arcs were passed in
ac3_init_arcs ==
    /\ pc = "ac3_call"
    /\ \E var \in variables : pending' = arcs_into(var)
    /\ cur' = {}
    /\ arcs' = <<>>
    /\ pc' = "ac3"
    /\ UNCHANGED <<variables, overlaps, words, domains, caller, inferences,
                   stack, assignment, retval, result, globalAc3, last,
                   entered, game, ai>>

NextAc3 ==
    \/ solve_enforce
    \/ ac3_init
    \/ ac3_init_arcs
    \/ ac3_iter
    \/ ac3_done

SpecAc3 == Init /\ [][NextAc3]_vars /\ WF_vars(NextAc3)

(***************************************************************************)
(* C21 (termination): every call of ac3 returns, or raises.                *)
(***************************************************************************)
C21_Ac3Terminates == (pc = "ac3") ~> (pc \in {"ac3_ret", "raised"})

\* a call has returned True after revise removed a word
C21_Witness ==
    /\ pc = "ac3_ret"
    /\ inferences
    /\ \E v \in variables : \E w \in words \ domains[v] : Len(w) = v.length

(***************************************************************************)
(* C22: a pass of ac3's loop whose revise removes the last words of a      *)
(* domain is the last one, and ac3 returns False from it; ac3 returns      *)
(* False from no other pass, and True only when the loop ends.             *)
(***************************************************************************)
EmptiesADomain == \E x \in variables : domains[x] # {} /\ domains'[x] = {}

InitRecorded ==
    \E V \in Structures : \E W \in Vocabularies :
        /\ IdleBut(V, OverlapsOf(V), W, Recorded)
        /\ domains = InitialDomains(V, W)
        /\ pc = "solve"

SpecRecorded == InitRecorded /\ [][Next]_vars

(***************************************************************************)
(* C23 (no retries): backtrack is never called with an assignment it has   *)
(* been called with before in the same solve().                            *)
(***************************************************************************)
C23_NoRetry ==
    pc = "backtrack" => AsDict(assignment) \notin entered.calls

\* a call made after a sibling branch of two assignments had failed
C23_Witness ==
    /\ pc = "backtrack"
    /\ Len(stack) = 1
    /\ Top.k > 1
    /\ \E d \in entered.calls : Cardinality(d) >= 2

(***************************************************************************)
(* C24: once the ac3() call made by solve() has returned, no step changes  *)
(* a domain: the ac3 passes backtrack runs for its candidates remove no    *)
(* word, and the domains when backtrack returns are those the global pass  *)
(* left.                                                                   *)
(***************************************************************************)
InBacktrack ==
    \/ pc \in {"backtrack", "bt_loop", "bt_ret"}
    \/ pc \in {"ac3", "ac3_ret"} /\ caller = "backtrack"

C24_LocalizedPassRemovesNothing ==
    [][InBacktrack => domains' = domains]_vars

\* the outermost backtrack call has returned an assignment, on domains
\* that the global pass had pruned and that still hold a choice
C24_Witness ==
    /\ pc = "bt_ret"
    /\ stack = <<>>
    /\ Truthy(retval)
    /\ \E v \in variables : \E w \in words \ domains[v] : Len(w) = v.length
    /\ \E v \in variables : Cardinality(domains[v]) > 1 /\ neighbors(v) # {}

(***************************************************************************)
(* C25 (pruning keeps the solutions): at every point of solve(), for every *)
(* complete consistent assignment S and every variable v, the word S[v] is *)
(* in domains[v].                                                          *)
(***************************************************************************)
C25_PruningKeepsSolutions ==
    \A S \in Solutions : \A v \in variables : S[v] \in domains[v]

\* solve() has returned where there is a solution, after node consistency
\* and revise both removed words
C25_Witness ==
    /\ Returned
    /\ Solutions # {}
    /\ \E v \in variables : \E w \in words \ domains[v] : Len(w) # v.length
    /\ \E v \in variables : \E w \in words \ domains[v] : Len(w) = v.length

(***************************************************************************)
(* C27: every arc (x, y) on ac3's worklist, whether it is one of the arcs  *)
(* the call started with or one appended by the loop, has y among the      *)
(* neighbours of x, so that the overlap of x and y is defined.             *)
(***************************************************************************)
Worklist == pending \cup { arcs[k] : k \in DOMAIN arcs }

C27_ArcsJoinNeighbours ==
    \A a \in Worklist :
        /\ a[2] \in neighbors(a[1])
        /\ overlaps[a] # None

\* the worklist of the ac3() call of solve() holds arcs it started with and
\* arcs appended after a revision, in a structure where two variables do
\* not intersect
C27_Witness ==
    /\ pc = "ac3"
    /\ pending # {}
    /\ arcs # <<>>
    /\ \E p \in Pairs(variables) : overlaps[p] = None

(***************************************************************************)
(* The minesweeper player (HW1/minesweeper/minesweeper.py).  `game` is the *)
(* set of cells of the board that hold a mine; `ai` is the MinesweeperAI:  *)
(* its sets moves_made, mines and safes, and its list knowledge of         *)
(* Sentences [cells, count].  The AI is built for the height and width of  *)
(* the board.                                                              *)
(***************************************************************************)
MsCells == (0 .. MsHeight - 1) \X (0 .. MsWidth - 1)

Boards == { M \in SUBSET MsCells : Cardinality(M) <= MaxMines }

\* the cells (i, j) of the two nested range() loops around cell, cell included
Around(cell) ==
    (cell[1] - 1 .. cell[1] + 1) \X (cell[2] - 1 .. cell[2] + 1)

\* MinesweeperAI._lowerbound and _upperbound
InBounds(c) == c[1] >= 0 /\ c[2] >= 0 /\ c[1] < MsHeight /\ c[2] < MsWidth

\* Minesweeper.nearby_mines
nearby_mines(cell) ==
    Cardinality({ c \in Around(cell) : c # cell /\ InBounds(c) /\ c \in game })

Sentence(cells, count) == [cells |-> cells, count |-> count]

known_mines_if_any(s) == IF s.count > 0 THEN s.cells ELSE {}

known_mines(s) == IF s.count = Cardinality(s.cells) THEN s.cells ELSE {}

known_safes(s) == IF s.count = 0 THEN s.cells ELSE {}

\* Sentence.mark_mine, Sentence.mark_safe
sentence_mark_mine(s, cell) ==
    IF cell \in s.cells THEN Sentence(s.cells \ {cell}, s.count - 1) ELSE s

sentence_mark_safe(s, cell) ==
    IF cell \in s.cells THEN Sentence(s.cells \ {cell}, s.count) ELSE s

\* MinesweeperAI.mark_mine, MinesweeperAI.mark_safe
mark_mine(a, cell) ==
    [a EXCEPT !.mines = @ \cup {cell},
              !.knowledge = [k \in DOMAIN @ |-> sentence_mark_mine(@[k], cell)]]

mark_safe(a, cell) ==
    [a EXCEPT !.safes = @ \cup {cell},
              !.knowledge = [k \in DOMAIN @ |-> sentence_mark_safe(@[k], cell)]]

\* the for loops of _update_safe_and_mines over the collected cells
RECURSIVE mark_safes(_, _)
mark_safes(a, S) ==
    IF S = {} THEN a
    ELSE LET c == CHOOSE x \in S : TRUE
         IN  mark_safes(mark_safe(a, c), S \ {c})

RECURSIVE mark_mines(_, _)
mark_mines(a, S) ==
    IF S = {} THEN a
    ELSE LET c == CHOOSE x \in S : TRUE
         IN  mark_mines(mark_mine(a, c), S \ {c})

\* _add_new_sentence
add_new_sentence(a, cell, count) ==
    LET unknown == { c \in Around(cell) :
                       c # cell /\ c \notin a.safes /\ c \notin a.moves_made }
        neighbors_ == { c \in unknown : c \notin a.mines /\ InBounds(c) }
        count_ == count - Cardinality(unknown \cap a.mines)
    IN  [a EXCEPT !.knowledge = Append(@, Sentence(neighbors_, count_))]

\* _update_safe_and_mines: the AI after the call and the flag it returns
update_safe_and_mines(a) ==
    LET safe_cells == UNION { known_safes(a.knowledge[k]) : k \in DOMAIN a.knowledge }
        mine_cells == UNION { known_mines(a.knowledge[k]) : k \in DOMAIN a.knowledge }
        marked == mark_mines(mark_safes(a, safe_cells), mine_cells)
        NotEmpty(sentence) == Cardinality(sentence.cells) > 0
    IN  [ai |-> [marked EXCEPT !.knowledge = SelectSeq(@, NotEmpty)],
         kb_updated |-> safe_cells # {} \/ mine_cells # {}]

\* _inference, lines 323-345: what the pair (i, j) adds to new_sentences
inferred(K, i, j) ==
    LET set1 == K[i].cells
        set2 == K[j].cells
        count1 == K[i].count
        count2 == K[j].count
        known(sentence) == \E k \in DOMAIN K : K[k] = sentence
    IN  IF set1 = set2 THEN <<>>
        ELSE IF set1 \subseteq set2 /\ count2 - count1 >= 0
        THEN (IF known(Sentence(set2 \ set1, count2 - count1)) THEN <<>>
              ELSE <<Sentence(set2 \ set1, count2 - count1)>>)
        ELSE IF set2 \subseteq set1 /\ count1 - count2 >= 0
        THEN (IF known(Sentence(set1 \ set2, count1 - count2)) THEN <<>>
              ELSE <<Sentence(set1 \ set2, count1 - count2)>>)
        ELSE <<>>

\* the two nested loops of _inference, from the pair (i, j) on
RECURSIVE new_sentences(_, _, _)
new_sentences(K, i, j) ==
    IF i > Len(K) THEN <<>>
    ELSE IF j > Len(K) THEN new_sentences(K, i + 1, i + 2)
    ELSE inferred(K, i, j) \o new_sentences(K, i, j + 1)

\* _inference: the AI after the call and the flag it returns
inference(a) ==
    LET new == new_sentences(a.knowledge, 1, 2)
    IN  [ai |-> [a EXCEPT !.knowledge = @ \o new],
         kb_updated |-> new # <<>>]

\* add_knowledge, lines 229-237: the while loop
RECURSIVE update_knowledge(_)
update_knowledge(a) ==
    LET u == update_safe_and_mines(a)
        n == inference(u.ai)
    IN  IF u.kb_updated \/ n.kb_updated THEN update_knowledge(n.ai) ELSE n.ai

\* add_knowledge(cell, count): the AI after the call
AddKnowledge(a, cell, count) ==
    LET moved == [a EXCEPT !.moves_made = @ \cup {cell}]
    IN  update_knowledge(add_new_sentence(mark_safe(moved, cell), cell, count))

(***************************************************************************)
(* SpecMinesweeper: a board with at most MaxMines mines, a new AI, and at  *)
(* most MaxCalls calls add_knowledge(cell, count), each for a cell that    *)
(* holds no mine with the number of mines around it.  `last` counts the    *)
(* calls.                                                                  *)
(***************************************************************************)
InitMinesweeper ==
    \E M \in Boards :
        /\ variables = {}
        /\ overlaps = OverlapsOf({})
        /\ words = {}
        /\ domains = InitialDomains({}, {})
        /\ pending = {}
        /\ cur = {}
        /\ arcs = <<>>
        /\ caller = "solve"
        /\ inferences = TRUE
        /\ stack = <<>>
        /\ assignment = <<>>
        /\ retval = NoneVal
        /\ result = NoneVal
        /\ globalAc3 = TRUE
        /\ entered = NotRecorded
        /\ pc = "minesweeper"
        /\ last = [op |-> "add_knowledge", calls |-> 0]
        /\ game = M
        /\ ai = NoAI

add_knowledge ==
    /\ pc = "minesweeper"
    /\ last.calls < MaxCalls
    /\ \E cell \in MsCells \ game :
          ai' = AddKnowledge(ai, cell, nearby_mines(cell))
    /\ last' = [last EXCEPT !.calls = @ + 1]
    /\ UNCHANGED <<variables, overlaps, words, domains, pc, pending, cur, arcs,
                   caller, inferences, stack, assignment, retval, result,
                   globalAc3, entered, game>>

NextMinesweeper == add_knowledge

SpecMinesweeper == InitMinesweeper /\ [][NextMinesweeper]_vars

(***************************************************************************)
(* C26: after any sequence of add_knowledge calls that report true counts  *)
(* of cells without a mine, no cell of ai.safes holds a mine and every     *)
(* cell of ai.mines holds one.                                             *)
(***************************************************************************)
C26_SafesAndMinesAreRight ==
    pc = "minesweeper" =>
        /\ ai.safes \cap game = {}
        /\ ai.mines \subseteq game
        /\ ai.safes \cap ai.mines = {}

\* the cells around a move that the AI was not told about
Untold(cell) == { c \in Around(cell) : InBounds(c) } \ ai.moves_made

\* the AI has found a mine and a safe cell it was not told about, although
\* no sentence of a move settles any cell by itself: the count of every move
\* is more than 0 and less than the number of cells around it that are left
\* once the moves are taken out, so the cells were found by _inference
C26_Witness ==
    /\ pc = "minesweeper"
    /\ ai.mines # {}
    /\ ai.safes \ ai.moves_made # {}
    /\ \A c \in ai.moves_made :
          nearby_mines(c) > 0 /\ nearby_mines(c) < Cardinality(Untold(c))

=============================================================================
